---- MODULE Spec2Model ----
(***************************************************************************)
(* Model of src/main.ts, the Workflow Dispatch Action: run() reads its     *)
(* inputs, lists the repository's workflows page by page, locates one by   *)
(* name, id or file name, dispatches it, reads the run it produced and     *)
(* sets the outputs; every error ends in the catch block.                  *)
(*                                                                         *)
(* Strings are sequences of symbols.  Names, paths, references and ids are *)
(* spelled character by character; the fixed parts of messages are one     *)
(* symbol each.  run() is one async function: an action is the code that   *)
(* runs between two awaits, from the arrival of a response to the next     *)
(* request (or to the end of run()).                                       *)
(***************************************************************************)
EXTENDS Integers, Sequences, FiniteSets

VARIABLES
    pc,            \* position of run(): start, listing, dispatching, correlating, done
    env,           \* what core.getInput and github.context return
    remotePages,   \* the provider's catalog, page by page
    owner, repo, ref, inputs,   \* locals of run()
    workflows,     \* entries gathered by octokit.paginate so far
    foundWorkflow, \* <<>> while undefined, <<w>> once found
    dispatchResp,  \* <<>> or <<response of the dispatch call>>
    runResp,       \* <<>> or <<response of the follow-up read>>
    calls,         \* network requests issued, in order
    replies,       \* "ok" / "err", one per answered request
    caught,        \* errors that reached the catch block: [origin, message]
    outputs,       \* core.setOutput calls, in order: <<name, value>>
    failed,        \* core.setFailed calls, in order
    warnings       \* core.warning calls, in order

vars == <<pc, env, remotePages, owner, repo, ref, inputs, workflows,
          foundWorkflow, dispatchResp, runResp, calls, replies, caught,
          outputs, failed, warnings>>

----------------------------------------------------------------------------
(* Bounds *)

MaxPages == 2

----------------------------------------------------------------------------
(* Strings *)

EndsWith(s, suffix) ==
    /\ Len(suffix) <= Len(s)
    /\ SubSeq(s, Len(s) - Len(suffix) + 1, Len(s)) = suffix

Digits == <<"0", "1", "2", "3", "4", "5", "6", "7", "8", "9">>

RECURSIVE ToString(_)
ToString(n) ==
    IF n < 10 THEN <<Digits[n + 1]>>
    ELSE Append(ToString(n \div 10), Digits[(n % 10) + 1])

RECURSIVE Split(_, _)
Split(s, sep) ==
    IF \E i \in 1..Len(s) : s[i] = sep
    THEN LET i == CHOOSE k \in 1..Len(s) :
                      s[k] = sep /\ \A j \in 1..(k - 1) : s[j] # sep
         IN  <<SubSeq(s, 1, i - 1)>> \o Split(SubSeq(s, i + 1, Len(s)), sep)
    ELSE <<s>>

\* an array element read by destructuring, rendered as a template literal does
Element(parts, i) == IF i <= Len(parts) THEN parts[i] ELSE <<"undefined">>

----------------------------------------------------------------------------
(* Inputs of one invocation *)

ContextRef == <<"refs/heads/ctx">>
ContextOwner == <<"c">>
ContextRepo == <<"d">>

WorkflowRefs ==
    { <<>>, <<"a">>, <<"b">>, <<"1">>, <<"2">>, <<"1", "2">>, <<"/", "a">>, <<"z">> }
RefInputs == { <<>>, <<"main">> }
RepoInputs == { <<>>, <<"o", "/", "r">> }
InputsJsons == { <<>>, <<"{", "k:v", "}">>, <<"{", "bad json">> }

Envs ==
    [workflow : WorkflowRefs, ref : RefInputs, repo : RepoInputs,
     inputs : InputsJsons]

\* JSON.parse on the token spelling of an object: "{", members, "}"
JSONMembers == { "k:v", "x:y" }
\* variant: only the opening brace is looked at
JSONValidLenient(s) == Len(s) >= 1 /\ s[1] = "{"

JSONValid(s) ==
    /\ Len(s) >= 2
    /\ s[1] = "{"
    /\ s[Len(s)] = "}"
    /\ \A i \in 2..(Len(s) - 1) : s[i] \in JSONMembers
JSONParse(s) == { s[i] : i \in 2..(Len(s) - 1) }
SyntaxErrorMessage == <<"Unexpected token in JSON">>

----------------------------------------------------------------------------
(* The provider *)

Workflow1 == [id |-> 1, name |-> <<"a">>, path |-> <<"/", "a">>]
Workflow12 == [id |-> 12, name |-> <<"b">>, path |-> <<"/", "b">>]
Workflow2 == [id |-> 2, name |-> <<"1">>, path |-> <<"/", "a", "b">>]

\* the pages a list request may return: empty, one entry, two entries
Pages ==
    { <<>>, <<Workflow1>>, <<Workflow12>>, <<Workflow2>>, <<Workflow2, Workflow1>> }
Catalogs == UNION { [1..k -> Pages] : k \in 1..MaxPages }

RECURSIVE Concat(_)
Concat(pages) ==
    IF pages = <<>> THEN <<>>
    ELSE Concat(SubSeq(pages, 1, Len(pages) - 1)) \o pages[Len(pages)]

DisabledMessage ==
    <<"Cannot trigger a 'workflow_dispatch' on ", "a disabled workflow">>
ErrorMessages ==
    { <<"Not Found">>, DisabledMessage, <<"a disabled workflow", " was skipped">> }

RunsUrl == <<"https://api.example/runs-collection">>
OtherUrl == <<"https://api.example/other">>
\* the body of a successful dispatch response; hasData is FALSE for a response
\* without a body (204 No Content), whose data is undefined.  An absent and
\* an empty workflow_url are both <<>>.
NoData == [hasData |-> FALSE, status |-> "", workflow_url |-> <<>>]
DispatchDatas ==
    [hasData : {TRUE}, status : {"queued", "completed"},
     workflow_url : {<<>>, RunsUrl, OtherUrl}] \cup {NoData}
RunIds == {555, 7}

----------------------------------------------------------------------------
(* run() *)

Call(op, route, o, r, rf, in, page) ==
    [op |-> op, route |-> route, owner |-> o, repo |-> r, ref |-> rf,
     inputs |-> in, page |-> page]

ListRoute == <<"GET /repos/{owner}/{repo}/actions/workflows">>
ListCall(o, r, rf, in, page) == Call("list", ListRoute, o, r, rf, in, page)

\* variant: owner and repo change places
DispatchRouteSwapped(o, r, id) ==
    <<"POST /repos/">> \o r \o <<"/">> \o o \o <<"/actions/workflows/">>
        \o ToString(id) \o <<"/dispatches">>

DispatchRoute(o, r, id) ==
    <<"POST /repos/">> \o o \o <<"/">> \o r \o <<"/actions/workflows/">>
        \o ToString(id) \o <<"/dispatches">>
DispatchCall(o, r, id, rf, in) ==
    Call("dispatch", DispatchRoute(o, r, id), <<>>, <<>>, rf, in, 0)

\* variant: the follow-up read goes to a fixed address
GetCallFixedUrl(url) == Call("get", <<"GET ">> \o RunsUrl, <<>>, <<>>, <<>>, {}, 0)

\* variant: the follow-up request is a second POST
GetCallAsPost(url) == Call("dispatch", <<"POST ">> \o url, <<>>, <<>>, <<>>, {}, 0)

GetCall(url) == Call("get", <<"GET ">> \o url, <<>>, <<>>, <<>>, {}, 0)

\* the predicate of workflows.find
Matches(workflow, workflowRef) ==
    \/ workflow.name = workflowRef
    \/ ToString(workflow.id) = workflowRef
    \/ EndsWith(workflow.path, workflowRef)

\* variant: the last element that satisfies the predicate
FindLast(list, workflowRef) ==
    IF \E i \in 1..Len(list) : Matches(list[i], workflowRef)
    THEN LET i == CHOOSE k \in 1..Len(list) :
                      /\ Matches(list[k], workflowRef)
                      /\ \A j \in (k + 1)..Len(list) : ~Matches(list[j], workflowRef)
         IN  <<list[i]>>
    ELSE <<>>

\* Array.prototype.find: the first element that satisfies the predicate
Find(list, workflowRef) ==
    IF \E i \in 1..Len(list) : Matches(list[i], workflowRef)
    THEN LET i == CHOOSE k \in 1..Len(list) :
                      /\ Matches(list[k], workflowRef)
                      /\ \A j \in 1..(k - 1) : ~Matches(list[j], workflowRef)
         IN  <<list[i]>>
    ELSE <<>>

\* the last symbol stands for the emoji that ends the message
NotFoundMessage(workflowRef, o, r) ==
    <<"Unable to find workflow '">> \o workflowRef \o <<"' in ">> \o o
        \o <<"/">> \o r \o <<" (sad face)">>

TypeErrorMessage == <<"Cannot read properties of undefined (reading 'status')">>

\* variant: || in place of &&
CorrelationReadyEither(data) == data.status = "queued" \/ data.workflow_url # <<>>

CorrelationReady(data) == data.status = "queued" /\ data.workflow_url # <<>>

DisabledPhrase == <<"a disabled workflow">>
\* variant: the whole message is compared
IsDisabledExact(message) == message = DisabledPhrase

IsDisabled(message) == EndsWith(message, DisabledPhrase)
DisabledWarning == <<"Workflow is disabled, no action was taken">>

\* variant: every output is written under the name runId
SetOutputRunId(outs, name, value) == Append(outs, <<"runId", value>>)

\* core.setOutput
SetOutput(outs, name, value) == Append(outs, <<name, value>>)

\* the catch block
Catch(origin, message) ==
    /\ caught' = Append(caught, [origin |-> origin, message |-> message])
    /\ IF IsDisabled(message)
       THEN warnings' = Append(warnings, DisabledWarning) /\ UNCHANGED failed
       ELSE failed' = Append(failed, message) /\ UNCHANGED warnings
    /\ pc' = "done"

Init ==
    /\ pc = "start"
    /\ env \in Envs
    /\ remotePages \in Catalogs
    /\ owner = <<>> /\ repo = <<>> /\ ref = <<>> /\ inputs = {}
    /\ workflows = <<>>
    /\ foundWorkflow = <<>>
    /\ dispatchResp = <<>>
    /\ runResp = <<>>
    /\ calls = <<>>
    /\ replies = <<>>
    /\ caught = <<>>
    /\ outputs = <<>>
    /\ failed = <<>>
    /\ warnings = <<>>

OwnerOf(e) == IF e.repo # <<>> THEN Element(Split(e.repo, "/"), 1) ELSE ContextOwner
RepoOf(e) == IF e.repo # <<>> THEN Element(Split(e.repo, "/"), 2) ELSE ContextRepo
RefOf(e) == IF e.ref # <<>> THEN e.ref ELSE ContextRef

\* from the entry of run() to the first page request
Start ==
    /\ pc = "start"
    /\ owner' = OwnerOf(env)
    /\ repo' = RepoOf(env)
    /\ ref' = RefOf(env)
    /\ IF env.inputs # <<>> /\ ~JSONValid(env.inputs)
       THEN /\ Catch("parse", SyntaxErrorMessage)
            /\ UNCHANGED <<inputs, calls>>
       ELSE /\ inputs' = IF env.inputs # <<>> THEN JSONParse(env.inputs) ELSE {}
            /\ calls' = Append(calls, ListCall(owner', repo', ref', inputs', 1))
            /\ pc' = "listing"
            /\ UNCHANGED <<caught, failed, warnings>>
    /\ UNCHANGED <<env, remotePages, workflows, foundWorkflow, dispatchResp,
                   runResp, replies, outputs>>

PageNo == calls[Len(calls)].page

\* a page request is rejected
ListFails ==
    /\ pc = "listing"
    /\ \E m \in ErrorMessages : Catch("list", m)
    /\ replies' = Append(replies, "err")
    /\ UNCHANGED <<env, remotePages, owner, repo, ref, inputs, workflows,
                   foundWorkflow, dispatchResp, runResp, calls, outputs>>

\* a page arrives and names a next page
ListNextPage ==
    /\ pc = "listing"
    /\ PageNo < Len(remotePages)
    /\ workflows' = workflows \o remotePages[PageNo]
    /\ replies' = Append(replies, "ok")
    /\ calls' = Append(calls, ListCall(owner, repo, ref, inputs, PageNo + 1))
    /\ UNCHANGED <<pc, env, remotePages, owner, repo, ref, inputs, foundWorkflow,
                   dispatchResp, runResp, caught, outputs, failed, warnings>>

\* the last page arrives: locate the workflow and dispatch it
ListDone ==
    /\ pc = "listing"
    /\ PageNo = Len(remotePages)
    /\ workflows' = workflows \o remotePages[PageNo]
    /\ replies' = Append(replies, "ok")
    /\ foundWorkflow' = Find(workflows', env.workflow)
    /\ IF foundWorkflow' = <<>>
       THEN /\ Catch("notfound", NotFoundMessage(env.workflow, owner, repo))
            /\ UNCHANGED calls
       ELSE /\ calls' = Append(calls,
                   DispatchCall(owner, repo, foundWorkflow'[1].id, ref, inputs))
            /\ pc' = "dispatching"
            /\ UNCHANGED <<caught, failed, warnings>>
    /\ UNCHANGED <<env, remotePages, owner, repo, ref, inputs, dispatchResp,
                   runResp, outputs>>

\* the dispatch call is rejected
DispatchFails ==
    /\ pc = "dispatching"
    /\ \E m \in ErrorMessages : Catch("dispatch", m)
    /\ replies' = Append(replies, "err")
    /\ UNCHANGED <<env, remotePages, owner, repo, ref, inputs, workflows,
                   foundWorkflow, dispatchResp, runResp, calls, outputs>>

\* the dispatch call returns
DispatchReturns ==
    /\ pc = "dispatching"
    /\ \E data \in DispatchDatas :
        /\ dispatchResp' = <<data>>
        /\ IF ~data.hasData
           THEN /\ Catch("status", TypeErrorMessage)
                /\ UNCHANGED <<calls, outputs>>
           ELSE IF CorrelationReady(data)
           THEN /\ calls' = Append(calls, GetCall(data.workflow_url))
                /\ pc' = "correlating"
                /\ UNCHANGED <<caught, failed, warnings, outputs>>
           ELSE /\ outputs' = SetOutput(outputs, "workflowId", foundWorkflow[1].id)
                /\ pc' = "done"
                /\ UNCHANGED <<caught, failed, warnings, calls>>
    /\ replies' = Append(replies, "ok")
    /\ UNCHANGED <<env, remotePages, owner, repo, ref, inputs, workflows,
                   foundWorkflow, runResp>>

\* the follow-up read is rejected
RunReadFails ==
    /\ pc = "correlating"
    /\ \E m \in ErrorMessages : Catch("get", m)
    /\ replies' = Append(replies, "err")
    /\ UNCHANGED <<env, remotePages, owner, repo, ref, inputs, workflows,
                   foundWorkflow, dispatchResp, runResp, calls, outputs>>

\* the follow-up read returns
RunReadReturns ==
    /\ pc = "correlating"
    /\ \E id \in RunIds :
        /\ runResp' = <<[id |-> id]>>
        /\ outputs' = SetOutput(SetOutput(outputs, "runId", runResp'[1].id),
                                "workflowId", foundWorkflow[1].id)
    /\ replies' = Append(replies, "ok")
    /\ pc' = "done"
    /\ UNCHANGED <<env, remotePages, owner, repo, ref, inputs, workflows,
                   foundWorkflow, dispatchResp, calls, caught, failed, warnings>>

Next ==
    \/ Start
    \/ ListFails
    \/ ListNextPage
    \/ ListDone
    \/ DispatchFails
    \/ DispatchReturns
    \/ RunReadFails
    \/ RunReadReturns

Spec == Init /\ [][Next]_vars

----------------------------------------------------------------------------
(* Vocabulary of the properties *)

Catalog == Concat(remotePages)

\* the three rules of the reference, stated without the model's operators
HasSuffix(s, r) == \E k \in 0..Len(s) : SubSeq(s, k + 1, Len(s)) = r
Satisfies(w, r) == w.name = r \/ ToString(w.id) = r \/ HasSuffix(w.path, r)

Contains(s, t) == \E k \in 0..(Len(s) - Len(t)) : SubSeq(s, k + 1, k + Len(t)) = t

CallsOf(op) == { i \in 1..Len(calls) : calls[i].op = op }
OutputsOf(name) == { i \in 1..Len(outputs) : outputs[i][1] = name }

\* every page of the catalog was requested and arrived
AllPagesRead ==
    /\ Len(replies) >= Len(remotePages)
    /\ \A i \in 1..Len(remotePages) : replies[i] = "ok"

\* the dispatch call returned a body with a status
Answered == dispatchResp # <<>> /\ dispatchResp[1].hasData
Ready ==
    /\ Answered
    /\ dispatchResp[1].status = "queued"
    /\ dispatchResp[1].workflow_url # <<>>

EndsDisabled(m) == Len(m) >= 1 /\ m[Len(m)] = "a disabled workflow"

----------------------------------------------------------------------------
(* C1 *)

\* C1: once the whole catalog is read, the selected workflow is the first
\* entry, in catalog order, whose name, decimal id or path suffix is the
\* reference; when no entry satisfies a rule, none is selected.
C1_FirstMatchSelected ==
    AllPagesRead =>
        IF \E i \in 1..Len(Catalog) : Satisfies(Catalog[i], env.workflow)
        THEN \E i \in 1..Len(Catalog) :
                /\ Satisfies(Catalog[i], env.workflow)
                /\ \A j \in 1..(i - 1) : ~Satisfies(Catalog[j], env.workflow)
                /\ foundWorkflow = <<Catalog[i]>>
        ELSE foundWorkflow = <<>>

C1_Witness ==
    /\ AllPagesRead
    /\ Len(Catalog) = 2
    /\ Catalog[1] # Catalog[2]
    /\ Satisfies(Catalog[1], env.workflow)
    /\ Satisfies(Catalog[2], env.workflow)
    /\ foundWorkflow = <<Catalog[1]>>

----------------------------------------------------------------------------
(* C2 *)

\* C2: after a dispatch response with status "queued" and a non-empty
\* workflow_url there is exactly one follow-up read, it is addressed to that
\* URL, and once it has returned the runId output is the id of its response.
C2_OneReadOfTheUrl ==
    Ready =>
        /\ Cardinality(CallsOf("get")) = 1
        /\ calls[Len(calls)].op = "get"
        /\ calls[Len(calls)].route = <<"GET ">> \o dispatchResp[1].workflow_url
        /\ runResp # <<>> =>
              /\ Cardinality(OutputsOf("runId")) = 1
              /\ \A i \in OutputsOf("runId") : outputs[i][2] = runResp[1].id

C2_Witness ==
    /\ Ready
    /\ dispatchResp[1].workflow_url = OtherUrl
    /\ pc = "done"
    /\ runResp # <<>>
    /\ outputs[1] = <<"runId", 7>>

----------------------------------------------------------------------------
(* C3 *)

----------------------------------------------------------------------------
(* C4 *)

\* C4: when the dispatch call is rejected with a message that ends with
\* "a disabled workflow", run() is over without setFailed, with the one
\* warning, without a follow-up read and without any output.
C4_DisabledIsBenign ==
    \A i \in 1..Len(caught) :
        (caught[i].origin = "dispatch" /\ EndsDisabled(caught[i].message)) =>
            /\ pc = "done"
            /\ failed = <<>>
            /\ warnings = <<DisabledWarning>>
            /\ CallsOf("get") = {}
            /\ outputs = <<>>

C4_Witness ==
    /\ pc = "done"
    /\ Len(caught) = 1
    /\ caught[1].origin = "dispatch"
    /\ caught[1].message = DisabledMessage
    /\ warnings # <<>>

----------------------------------------------------------------------------
(* C5 *)

BadJson == <<"{", "bad json">>

\* C5: with the inputs string "{bad json" run() ends at once in one setFailed
\* with the parser's message and no network call; with the string absent the
\* inputs are the empty mapping and no parse error is caught.
C5_BadInputsNoNetwork ==
    pc # "start" =>
        /\ env.inputs = BadJson =>
              /\ pc = "done"
              /\ failed = <<SyntaxErrorMessage>>
              /\ calls = <<>>
        /\ env.inputs = <<>> =>
              /\ inputs = {}
              /\ \A i \in 1..Len(caught) : caught[i].origin # "parse"

C5_Witness ==
    /\ env.inputs = BadJson
    /\ pc = "done"
    /\ failed # <<>>
    /\ calls = <<>>

----------------------------------------------------------------------------
(* C6 *)

\* C6: when the whole catalog is read and no entry satisfies a rule, there is
\* one setFailed whose message carries the reference and owner/repo, and no
\* dispatch call and no follow-up read; every dispatch call is issued with a
\* workflow found in the catalog and is addressed to that workflow's id.
C6_NoDispatchWithoutMatch ==
    /\ (AllPagesRead /\ \A i \in 1..Len(Catalog) : ~Satisfies(Catalog[i], env.workflow)) =>
          /\ pc = "done"
          /\ Len(failed) = 1
          /\ Contains(failed[1], env.workflow)
          /\ Contains(failed[1], owner \o <<"/">> \o repo)
          /\ CallsOf("dispatch") = {}
          /\ CallsOf("get") = {}
    /\ \A i \in CallsOf("dispatch") :
          /\ foundWorkflow # <<>>
          /\ \E k \in 1..Len(Catalog) : Catalog[k] = foundWorkflow[1]
          /\ Satisfies(foundWorkflow[1], env.workflow)
          /\ calls[i].route =
                <<"POST /repos/">> \o owner \o <<"/">> \o repo
                    \o <<"/actions/workflows/">> \o ToString(foundWorkflow[1].id)
                    \o <<"/dispatches">>

C6_Witness ==
    /\ pc = "done"
    /\ env.workflow = <<"z">>
    /\ env.repo = <<"o", "/", "r">>
    /\ Len(Catalog) = 2
    /\ Len(failed) = 1
    /\ Contains(failed[1], <<"z">>)
    /\ Contains(failed[1], <<"o", "/", "r">>)
    /\ Len(calls) = 2

----------------------------------------------------------------------------
(* C7 *)

\* C7: every error that reaches the catch block ends in exactly one
\* setFailed with that error's message, except a rejection of the dispatch
\* call whose message ends with "a disabled workflow", which ends in none.
C7_OnlyDispatchDisabledIsSwallowed ==
    \A i \in 1..Len(caught) :
        IF caught[i].origin = "dispatch" /\ EndsDisabled(caught[i].message)
        THEN failed = <<>>
        ELSE failed = <<caught[i].message>>

----------------------------------------------------------------------------
(* C8 *)

Rank(op) == CASE op = "list" -> 1 [] op = "dispatch" -> 2 [] op = "get" -> 3

\* C8: at most one dispatch call and at most one follow-up read; the requests
\* are issued in the order list, dispatch, read, one at a time; a request
\* that failed is the last request, and run() is over once an error is caught.
C8_NoRetries ==
    /\ Cardinality(CallsOf("dispatch")) <= 1
    /\ Cardinality(CallsOf("get")) <= 1
    /\ \A i \in 1..Len(calls) : \A j \in i..Len(calls) :
          Rank(calls[i].op) <= Rank(calls[j].op)
    /\ Len(replies) <= Len(calls)
    /\ Len(calls) <= Len(replies) + 1
    /\ \A i \in 1..Len(replies) : replies[i] = "err" => i = Len(calls)
    /\ caught # <<>> => pc = "done"

C8_Witness ==
    /\ pc = "done"
    /\ Len(calls) = 4
    /\ calls[1].op = "list" /\ calls[2].op = "list"
    /\ calls[3].op = "dispatch" /\ calls[4].op = "get"
    /\ replies = <<"ok", "ok", "ok", "err">>
    /\ failed # <<>>

----------------------------------------------------------------------------
(* C9 *)

\* C9: when run() is over: if no error was caught the workflowId output is
\* set, once, to the found workflow's id; runId is set only if the follow-up
\* read was made and returned; if runId is set so is workflowId; if
\* setFailed was called workflowId is not set.
C9_Outputs ==
    pc = "done" =>
        /\ caught = <<>> =>
              /\ foundWorkflow # <<>>
              /\ Cardinality(OutputsOf("workflowId")) = 1
              /\ \A i \in OutputsOf("workflowId") :
                    outputs[i][2] = foundWorkflow[1].id
        /\ OutputsOf("runId") # {} =>
              /\ CallsOf("get") # {}
              /\ runResp # <<>>
              /\ replies[Len(replies)] = "ok"
              /\ OutputsOf("workflowId") # {}
        /\ failed # <<>> => OutputsOf("workflowId") = {}

C9_Witness ==
    /\ pc = "done"
    /\ caught = <<>>
    /\ outputs = <<<<"runId", 555>>, <<"workflowId", 12>>>>

----------------------------------------------------------------------------
(* C10 *)

\* C10: when every page arrived there were exactly as many page requests as
\* the catalog has pages, numbered 1, 2, ... in order, and the list handed
\* to the matcher is the concatenation of the pages; a rejected page request
\* ends in one setFailed with the rejection's message and no workflow
\* is matched or dispatched.
C10_Pagination ==
    /\ AllPagesRead =>
          /\ Cardinality(CallsOf("list")) = Len(remotePages)
          /\ \A i \in 1..Len(remotePages) :
                calls[i].op = "list" /\ calls[i].page = i
          /\ workflows = Catalog
    /\ \A i \in 1..Len(replies) :
          (replies[i] = "err" /\ calls[i].op = "list") =>
              /\ Len(caught) = 1
              /\ failed = <<caught[1].message>>
              /\ foundWorkflow = <<>>
              /\ CallsOf("dispatch") = {}

====
